---- MODULE Spec2Model ----
(***************************************************************************)
(* Model of lsreader.py: the process locator (search_processes,            *)
(* list_open_files, find_local_storage) and the LocalStorage accessor      *)
(* (connect, read, read_iter, read_key, close, is_connected, __getitem__). *)
(*                                                                         *)
(* Python strings are sequences of one-character strings, so that          *)
(* startswith, endswith, `in`, dirname and basename are computed and not   *)
(* assumed.  Four specifications share the module:                         *)
(*   Spec        the LocalStorage accessor                                 *)
(*   SpecIter    the accessor together with a read_iter generator          *)
(*   SpecSearch  the search_processes generator                            *)
(*   SpecFind    find_local_storage over list_open_files                   *)
(***************************************************************************)
EXTENDS Integers, Sequences, FiniteSets, TLC

VARIABLES
    \* LocalStorage accessor
    proto,        \* self.proto
    site,         \* self.site
    storage,      \* os.listdir(self.storage): the entries, in listing order
    table,        \* rows of ItemTable in the matching file, in scan order
    connection,   \* self.connection: 0 is None, n > 0 is handle number n
    handles,      \* every sqlite3.Connection opened so far: [file, open]
    last,         \* the call that returned last, with what it did
    prev,         \* the call before it: [op, ret]
    iter,         \* the generator read_iter() returned last: [state, h, pos, out]
    \* the search_processes generator
    procs,        \* psutil.process_iter(): the processes, in order
    any_user,     \* the any_user argument
    process_filter, \* the process_filter argument (one of Filters)
    spPos,        \* number of processes the loop has consumed
    spYielded,    \* indices of the processes yielded so far, in order
    spState,      \* "running", "done" or "raised"
    \* find_local_storage over the list_open_files generator
    fdListFails,  \* os.listdir(fdir) raises
    fds,          \* the entries of /proc/<pid>/fd with their link targets
    flsPos,       \* number of entries resolved by os.readlink so far
    flsState,     \* "running", "returned" or "raised"
    flsRet        \* the value returned: [none, dir]

lsVars == <<proto, site, storage, table, connection, handles, last, prev, iter>>
spVars == <<procs, any_user, process_filter, spPos, spYielded, spState>>
flsVars == <<fdListFails, fds, flsPos, flsState, flsRet>>
vars == <<lsVars, spVars, flsVars>>

\* ---- bounds -----------------------------------------------------------
MaxDir == 2
MaxRows == 2
MaxHandles == 2
MaxProcs == 2
MaxFds == 3

\* ---- strings ------------------------------------------------------------
RECURSIVE SeqsUpTo(_, _)
\* all sequences over S of length at most n
SeqsUpTo(S, n) ==
    IF n = 0 THEN {<<>>}
    ELSE LET shorter == SeqsUpTo(S, n - 1)
         IN shorter \cup {Append(s, x) : s \in {t \in shorter : Len(t) = n - 1}, x \in S}

Distinct(s) == \A i, j \in 1..Len(s) : i # j => s[i] # s[j]

\* str.startswith
StartsWith(s, p) == Len(p) <= Len(s) /\ SubSeq(s, 1, Len(p)) = p

\* str.endswith
EndsWith(s, p) == Len(p) <= Len(s) /\ SubSeq(s, Len(s) - Len(p) + 1, Len(s)) = p

\* `needle in s`
Contains(s, needle) ==
    \E i \in 1..(Len(s) - Len(needle) + 1) : SubSeq(s, i, i + Len(needle) - 1) = needle

\* str.rfind('/') + 1: the number of characters up to and including the last '/'
RFindSlash1(p) ==
    IF \E i \in 1..Len(p) : p[i] = "/"
    THEN CHOOSE i \in 1..Len(p) : p[i] = "/" /\ \A j \in (i + 1)..Len(p) : p[j] # "/"
    ELSE 0

RECURSIVE RStripSlash(_)
\* str.rstrip('/')
RStripSlash(s) ==
    IF Len(s) > 0 /\ s[Len(s)] = "/" THEN RStripSlash(SubSeq(s, 1, Len(s) - 1)) ELSE s

\* os.path.dirname (posixpath)
dirname(p) ==
    LET head == SubSeq(p, 1, RFindSlash1(p))
    IN IF head # <<>> /\ \E i \in 1..Len(head) : head[i] # "/"
       THEN RStripSlash(head)
       ELSE head

\* os.path.basename (posixpath)
basename(p) == SubSeq(p, RFindSlash1(p) + 1, Len(p))

US == <<"_">>
HTTPS == <<"h", "t", "t", "p", "s">>
HTTP == <<"h", "t", "t", "p">>
EXT == <<".", "l", "o", "c", "a", "l", "s", "t", "o", "r", "a", "g", "e">>
LOCAL_STORAGE == <<"L", "o", "c", "a", "l", " ", "S", "t", "o", "r", "a", "g", "e">>

\* ---- LocalStorage: data -------------------------------------------------
\* the accessor is built with the default proto
Protos == {HTTPS}
Sites == {<<"a">>}

\* names a storage directory may hold
FileNames ==
    { HTTPS \o US \o <<"a">> \o US \o <<"0">> \o EXT,
      HTTPS \o US \o <<"a">> \o US \o <<"1">> \o EXT,
      HTTP \o US \o <<"a">> \o US \o <<"0">> \o EXT,
      HTTPS \o US \o <<"a">> \o US \o <<"0">> \o EXT \o <<"-", "j">> }

Keys == {"theme", "lang"}

\* Python values: text/bytes, int, None; Absent marks a key a dict lacks
Text(s) == [type |-> "text", text |-> s, num |-> 0]
Num(n) == [type |-> "int", text |-> "", num |-> n]
PyNone == [type |-> "None", text |-> "", num |-> 0]
Absent == [type |-> "absent", text |-> "", num |-> 0]
Values == {Text("dark"), Text(""), Num(0)}

\* a row is <<key, value>>: row[1] is column 0, row[2] is column 1
Rows == Keys \X Values
Tables(n) == {t \in SeqsUpTo(Rows, n) : \A i, j \in 1..Len(t) : i # j => t[i][1] # t[j][1]}
Dirs(n) == {d \in SeqsUpTo(FileNames, n) : Distinct(d)}

EmptyDict == [k \in Keys |-> Absent]

\* what a call gave back
RetNone == [kind |-> "None", h |-> 0, val |-> PyNone, map |-> EmptyDict, b |-> FALSE]
RetHandle(n) == [kind |-> "handle", h |-> n, val |-> PyNone, map |-> EmptyDict, b |-> FALSE]
RetValue(v) ==
    IF v = PyNone THEN RetNone
    ELSE [kind |-> "value", h |-> 0, val |-> v, map |-> EmptyDict, b |-> FALSE]
RetDict(m) == [kind |-> "dict", h |-> 0, val |-> PyNone, map |-> m, b |-> FALSE]
RetBool(x) == [kind |-> "bool", h |-> 0, val |-> PyNone, map |-> EmptyDict, b |-> x]
Raise(e) == [kind |-> e, h |-> 0, val |-> PyNone, map |-> EmptyDict, b |-> FALSE]
Raised(r) == r.kind \in {"AttributeError", "IndexError"}

Call(op, key, ret, listed, opened, before) ==
    [op |-> op, key |-> key, ret |-> ret, listed |-> listed, opened |-> opened,
     before |-> before]
NoCall == Call("init", "", RetNone, FALSE, FALSE, 0)
NoPrev == [op |-> "init", ret |-> RetNone]

\* ---- LocalStorage: the methods ------------------------------------------
\* line 59: _f.startswith(self.proto + '_' + self.site + '_') and _f.endswith('.localstorage')
MatchesSuffixOnly(_f, pr, si) == EndsWith(_f, EXT)
MatchesPrefixOnly(_f, pr, si) == StartsWith(_f, pr \o US \o si \o US)
Matches(_f, pr, si) == StartsWith(_f, pr \o US \o si \o US) /\ EndsWith(_f, EXT)

HasMatch(dir, pr, si) == \E i \in 1..Len(dir) : Matches(dir[i], pr, si)

\* the first entry, in listing order, that the loop of connect() accepts
LastMatch(dir, pr, si) ==
    CHOOSE i \in 1..Len(dir) :
        Matches(dir[i], pr, si) /\ \A j \in (i + 1)..Len(dir) : ~Matches(dir[j], pr, si)
FirstMatch(dir, pr, si) ==
    CHOOSE i \in 1..Len(dir) :
        Matches(dir[i], pr, si) /\ \A j \in 1..(i - 1) : ~Matches(dir[j], pr, si)

\* truth value of self.connection (None is false, a Connection is true)
HeldNever(conn) == FALSE
Held(conn) == conn # 0

\* LocalStorage.connect: the connection, the handles, the return value, and
\* whether the directory was listed and a handle opened
connectAlwaysLists(conn, hs, dir, pr, si) ==
    IF HasMatch(dir, pr, si)
    THEN [conn |-> Len(hs) + 1,
          hs |-> Append(hs, [file |-> dir[FirstMatch(dir, pr, si)], open |-> TRUE]),
          ret |-> RetHandle(Len(hs) + 1), listed |-> TRUE, opened |-> TRUE]
    ELSE [conn |-> conn, hs |-> hs, ret |-> RetNone, listed |-> TRUE, opened |-> FALSE]
connect(conn, hs, dir, pr, si) ==
    IF Held(conn)
    THEN [conn |-> conn, hs |-> hs, ret |-> RetHandle(conn),
          listed |-> FALSE, opened |-> FALSE]
    ELSE IF HasMatch(dir, pr, si)
    THEN [conn |-> Len(hs) + 1,
          hs |-> Append(hs, [file |-> dir[FirstMatch(dir, pr, si)], open |-> TRUE]),
          ret |-> RetHandle(Len(hs) + 1), listed |-> TRUE, opened |-> TRUE]
    ELSE [conn |-> conn, hs |-> hs, ret |-> RetNone, listed |-> TRUE, opened |-> FALSE]

RECURSIVE read_values(_, _)
\* the loop of read(): values[row[0]] = row[1] for each row, in scan order
read_values_keys(rows, values) ==
    [k \in Keys |-> IF \E i \in 1..Len(rows) : rows[i][1] = k THEN Text(k) ELSE values[k]]
read_values(rows, values) ==
    IF rows = <<>> THEN values
    ELSE read_values(Tail(rows), [values EXCEPT ![Head(rows)[1]] = Head(rows)[2]])

\* SELECT value FROM ItemTable WHERE key=?  : the rows the cursor holds
select_value(rows, key) == SelectSeq(rows, LAMBDA r : r[1] = key)

\* cur.fetchone()[0], with the TypeError of None[0] turned into None
fetch_value(rows, key) ==
    IF select_value(rows, key) = <<>> THEN PyNone
    ELSE select_value(rows, key)[1][2]

\* truth value of a Python object, as `if item:` takes it
Truthy(v) ==
    CASE v.type = "text" -> v.text # ""
      [] v.type = "int" -> v.num # 0
      [] OTHER -> FALSE

\* LocalStorage.read_key, given what connect() returned
read_key_result(c, rows, key) ==
    IF c.ret.kind = "None" THEN Raise("AttributeError")
    ELSE RetValue(fetch_value(rows, key))

\* LocalStorage.read, given what connect() returned
read_result_lenient(c, rows) == RetDict(read_values(rows, EmptyDict))
read_result(c, rows) ==
    IF c.ret.kind = "None" THEN Raise("AttributeError")
    ELSE RetDict(read_values(rows, EmptyDict))

\* LocalStorage.__getitem__, given what read_key returned
getitem_lenient(item) == item
getitem_result(item) ==
    IF Raised(item) THEN item
    ELSE IF item.kind = "value" /\ Truthy(item.val) THEN item
    ELSE Raise("IndexError")

\* LocalStorage.close: the connection and the handles after it
closeNoClose(conn, hs) == [conn |-> 0, hs |-> hs]
closeNoReset(conn, hs) ==
    IF Held(conn)
    THEN [conn |-> conn, hs |-> [hs EXCEPT ![conn].open = FALSE]]
    ELSE [conn |-> conn, hs |-> hs]
close(conn, hs) ==
    IF Held(conn)
    THEN [conn |-> 0, hs |-> [hs EXCEPT ![conn].open = FALSE]]
    ELSE [conn |-> conn, hs |-> hs]

\* LocalStorage.is_connected
is_connected_always(conn) == TRUE
is_connected(conn) == Held(conn)

\* a generator of read_iter: "none" (no generator yet), "created" (not advanced
\* yet), "running" (suspended at the yield, on handle h, pos rows yielded),
\* "done" (exhausted) or "raised"; out is what it yielded, in order
Gen(st, h, pos, out) == [state |-> st, h |-> h, pos |-> pos, out |-> out]
NoIter == Gen("none", 0, 0, <<>>)

\* what advancing a generator gave back: a row, or the end of the iteration
RetRow(row) == [kind |-> "row", h |-> 0, val |-> row[2], map |-> EmptyDict, b |-> FALSE]
RetStop == [kind |-> "StopIteration", h |-> 0, val |-> PyNone, map |-> EmptyDict, b |-> FALSE]
RetGen == [kind |-> "generator", h |-> 0, val |-> PyNone, map |-> EmptyDict, b |-> FALSE]

\* calling read_iter(): the body of a generator function does not run at the
\* call, so connect() is not reached
read_iter_eager(conn, hs, dir, pr, si) ==
    [conn |-> connect(conn, hs, dir, pr, si).conn, hs |-> connect(conn, hs, dir, pr, si).hs,
     listed |-> connect(conn, hs, dir, pr, si).listed,
     opened |-> connect(conn, hs, dir, pr, si).opened]
read_iter_call(conn, hs, dir, pr, si) ==
    [conn |-> conn, hs |-> hs, listed |-> FALSE, opened |-> FALSE]

\* the cursor of con.execute('SELECT * FROM ItemTable') after pos rows: the
\* next row, or nothing more
cursor_next_short(rows, pos) ==
    IF pos + 1 < Len(rows) THEN [more |-> TRUE, row |-> rows[pos + 1]]
    ELSE [more |-> FALSE, row |-> <<>>]
cursor_next(rows, pos) ==
    IF pos < Len(rows) THEN [more |-> TRUE, row |-> rows[pos + 1]]
    ELSE [more |-> FALSE, row |-> <<>>]

\* a call that has to open a handle needs room for one
CanCall == Held(connection) \/ Len(handles) < MaxHandles

LSInit ==
    /\ proto \in Protos
    /\ site \in Sites
    /\ storage \in Dirs(MaxDir)
    /\ table \in Tables(MaxRows)
    /\ connection = 0
    /\ handles = <<>>
    /\ last = NoCall
    /\ prev = NoPrev
    /\ iter = NoIter

LSIdle ==
    /\ proto = HTTPS /\ site = <<"a">> /\ storage = <<>> /\ table = <<>>
    /\ connection = 0 /\ handles = <<>> /\ last = NoCall /\ prev = NoPrev
    /\ iter = NoIter

Record(op, key, c, ret) ==
    /\ prev' = [op |-> last.op, ret |-> last.ret]
    /\ last' = Call(op, key, ret, c.listed, c.opened, connection)
    /\ UNCHANGED <<proto, site, storage, table>>

Connect ==
    /\ CanCall
    /\ LET c == connect(connection, handles, storage, proto, site)
       IN /\ connection' = c.conn
          /\ handles' = c.hs
          /\ Record("connect", "", c, c.ret)
    /\ UNCHANGED <<spVars, flsVars, iter>>

Read ==
    /\ CanCall
    /\ LET c == connect(connection, handles, storage, proto, site)
       IN /\ connection' = c.conn
          /\ handles' = c.hs
          /\ Record("read", "", c, read_result(c, table))
    /\ UNCHANGED <<spVars, flsVars, iter>>

ReadKey ==
    /\ CanCall
    /\ \E key \in Keys :
        LET c == connect(connection, handles, storage, proto, site)
        IN /\ connection' = c.conn
           /\ handles' = c.hs
           /\ Record("read_key", key, c, read_key_result(c, table, key))
    /\ UNCHANGED <<spVars, flsVars, iter>>

GetItem ==
    /\ CanCall
    /\ \E key \in Keys :
        LET c == connect(connection, handles, storage, proto, site)
        IN /\ connection' = c.conn
           /\ handles' = c.hs
           /\ Record("getitem", key, c, getitem_result(read_key_result(c, table, key)))
    /\ UNCHANGED <<spVars, flsVars, iter>>

Close ==
    /\ handles' = close(connection, handles).hs
    /\ connection' = close(connection, handles).conn
    /\ Record("close", "", [listed |-> FALSE, opened |-> FALSE], RetNone)
    /\ UNCHANGED <<spVars, flsVars, iter>>

IsConnected ==
    /\ Record("is_connected", "", [listed |-> FALSE, opened |-> FALSE],
              RetBool(is_connected(connection)))
    /\ UNCHANGED <<connection, handles, spVars, flsVars, iter>>

\* read_iter(): a new generator, nothing else
ReadIter ==
    /\ LET c == read_iter_call(connection, handles, storage, proto, site)
       IN /\ connection' = c.conn
          /\ handles' = c.hs
          /\ Record("read_iter", "", c, RetGen)
    /\ iter' = Gen("created", 0, 0, <<>>)
    /\ UNCHANGED <<spVars, flsVars>>

NoEffect == [listed |-> FALSE, opened |-> FALSE]

\* next() on a generator not advanced yet: connect(), execute, first row
IterStart ==
    /\ iter.state = "created"
    /\ CanCall
    /\ LET c == connect(connection, handles, storage, proto, site)
           n == cursor_next(table, 0)
       IN /\ connection' = c.conn
          /\ handles' = c.hs
          /\ IF c.ret.kind = "None"
             THEN /\ iter' = Gen("raised", 0, 0, <<>>)
                  /\ Record("next", "", c, Raise("AttributeError"))
             ELSE IF n.more
             THEN /\ iter' = Gen("running", c.conn, 1, <<n.row>>)
                  /\ Record("next", n.row[1], c, RetRow(n.row))
             ELSE /\ iter' = Gen("done", c.conn, 0, <<>>)
                  /\ Record("next", "", c, RetStop)
    /\ UNCHANGED <<spVars, flsVars>>

\* next() on a generator suspended at the yield: the cursor's next row; the
\* cursor of a closed connection raises ProgrammingError
IterNext ==
    /\ iter.state = "running"
    /\ LET n == cursor_next(table, iter.pos)
       IN IF ~handles[iter.h].open
          THEN /\ iter' = [iter EXCEPT !.state = "raised"]
               /\ Record("next", "", NoEffect, Raise("ProgrammingError"))
          ELSE IF n.more
          THEN /\ iter' = [iter EXCEPT !.pos = @ + 1, !.out = Append(@, n.row)]
               /\ Record("next", n.row[1], NoEffect, RetRow(n.row))
          ELSE /\ iter' = [iter EXCEPT !.state = "done"]
               /\ Record("next", "", NoEffect, RetStop)
    /\ UNCHANGED <<connection, handles, spVars, flsVars>>

\* ---- search_processes -----------------------------------------------------
USER == "me"
Users == {"me", "other"}

\* executables: /b/ch is a symbolic link to /o/ch, /b/sh is a plain file
EXE_LINK == <<"/", "b", "/", "c", "h">>
EXE_REAL == <<"/", "o", "/", "c", "h">>
EXE_SH == <<"/", "b", "/", "s", "h">>
ExePaths == {EXE_LINK, EXE_SH}

\* os.path.realpath over the links above
realpath(p) == IF p = EXE_LINK THEN EXE_REAL ELSE p

\* a process: what username() and exe() give, or that they raise AccessDenied
Procs ==
    [username : Users, usernameDenied : BOOLEAN, exe : ExePaths, exeDenied : BOOLEAN]

\* the predicates a caller may pass
Filters == {"all", "none", "base_ch", "in_o"}
ApplyFilter(f, exe, base) ==
    CASE f = "all" -> TRUE
      [] f = "none" -> FALSE
      [] f = "base_ch" -> base = <<"c", "h">>
      [] f = "in_o" -> StartsWith(exe, <<"/", "o", "/">>)

\* one turn of the loop of search_processes on process p:
\* "raise" (AccessDenied leaves the generator), "skip" or "yield"
search_step_raw_exe(p, au, f) ==
    IF ~au /\ p.usernameDenied THEN "raise"
    ELSE IF au \/ p.username = USER
    THEN IF p.exeDenied THEN "skip"
         ELSE IF ApplyFilter(f, p.exe, basename(p.exe)) THEN "yield"
         ELSE "skip"
    ELSE "skip"
search_step_any(p, au, f) ==
    IF p.exeDenied THEN "skip"
    ELSE IF ApplyFilter(f, realpath(p.exe), basename(realpath(p.exe))) THEN "yield"
    ELSE "skip"
search_step(p, au, f) ==
    IF ~au /\ p.usernameDenied THEN "raise"
    ELSE IF au \/ p.username = USER
    THEN IF p.exeDenied THEN "skip"
         ELSE IF ApplyFilter(f, realpath(p.exe), basename(realpath(p.exe))) THEN "yield"
         ELSE "skip"
    ELSE "skip"

SpInit ==
    /\ procs \in SeqsUpTo(Procs, MaxProcs)
    /\ any_user \in BOOLEAN
    /\ process_filter \in Filters
    /\ spPos = 0
    /\ spYielded = <<>>
    /\ spState = "running"

SpIdle ==
    /\ procs = <<>> /\ any_user = FALSE /\ process_filter = "none"
    /\ spPos = 0 /\ spYielded = <<>> /\ spState = "done"

SpTurn(outcome) ==
    /\ spState = "running"
    /\ spPos < Len(procs)
    /\ search_step(procs[spPos + 1], any_user, process_filter) = outcome
    /\ spPos' = spPos + 1
    /\ UNCHANGED <<procs, any_user, process_filter, lsVars, flsVars>>

SearchYield ==
    /\ SpTurn("yield")
    /\ spYielded' = Append(spYielded, spPos + 1)
    /\ UNCHANGED spState

SearchSkip ==
    /\ SpTurn("skip")
    /\ UNCHANGED <<spYielded, spState>>

SearchRaise ==
    /\ SpTurn("raise")
    /\ spState' = "raised"
    /\ UNCHANGED spYielded

SearchEnd ==
    /\ spState = "running"
    /\ spPos = Len(procs)
    /\ spState' = "done"
    /\ UNCHANGED <<procs, any_user, process_filter, spPos, spYielded, lsVars, flsVars>>

\* ---- list_open_files / find_local_storage -----------------------------------
FdPaths ==
    { <<"/", "a", "/">> \o LOCAL_STORAGE \o <<"/", "x">>,
      <<"/", "b", "/">> \o LOCAL_STORAGE \o <<"/", "l", "/", "y">>,
      <<"/", "a", "/", "l", "o", "g">>,
      LOCAL_STORAGE,
      <<"/", "a", "/", "l">> \o Tail(LOCAL_STORAGE) \o <<"/", "x">> }

\* an entry of the descriptor table: os.readlink gives path, or raises
FdEntries == {[err |-> FALSE, path |-> p] : p \in FdPaths} \cup {[err |-> TRUE, path |-> <<>>]}

RetDir(d) == [none |-> FALSE, dir |-> d]
RetAbsent == [none |-> TRUE, dir |-> <<>>]

\* line 40: 'Local Storage' in _f
fls_match(_f) == Contains(_f, LOCAL_STORAGE)

\* line 41: return os.path.dirname(_f)
fls_return_path(_f) == RetDir(_f)
fls_return(_f) == RetDir(dirname(_f))

FlsInit ==
    /\ fdListFails \in BOOLEAN
    /\ fds \in SeqsUpTo(FdEntries, MaxFds)
    /\ flsPos = 0
    /\ flsState = "running"
    /\ flsRet = RetAbsent

FlsIdle ==
    /\ fdListFails = FALSE /\ fds = <<>>
    /\ flsPos = 0 /\ flsState = "returned" /\ flsRet = RetAbsent

FlsFrame == UNCHANGED <<fdListFails, fds, lsVars, spVars>>

\* os.listdir(fdir) raises when the generator is first advanced
FlsListFail ==
    /\ flsState = "running" /\ flsPos = 0 /\ fdListFails
    /\ flsState' = "raised"
    /\ UNCHANGED <<flsPos, flsRet>>
    /\ FlsFrame

FlsCanRead == flsState = "running" /\ ~fdListFails /\ flsPos < Len(fds)

\* os.readlink raises on the next entry
FlsReadFailSwallowed ==
    /\ FlsCanRead /\ fds[flsPos + 1].err
    /\ flsPos' = flsPos + 1
    /\ UNCHANGED <<flsState, flsRet>>
    /\ FlsFrame
FlsReadFail ==
    /\ FlsCanRead /\ fds[flsPos + 1].err
    /\ flsPos' = flsPos + 1
    /\ flsState' = "raised"
    /\ UNCHANGED flsRet
    /\ FlsFrame

\* the next pathname has no 'Local Storage' in it
FlsPass ==
    /\ FlsCanRead /\ ~fds[flsPos + 1].err /\ ~fls_match(fds[flsPos + 1].path)
    /\ flsPos' = flsPos + 1
    /\ UNCHANGED <<flsState, flsRet>>
    /\ FlsFrame

\* the next pathname has: return its directory
FlsFound ==
    /\ FlsCanRead /\ ~fds[flsPos + 1].err /\ fls_match(fds[flsPos + 1].path)
    /\ flsPos' = flsPos + 1
    /\ flsState' = "returned"
    /\ flsRet' = fls_return(fds[flsPos + 1].path)
    /\ FlsFrame

\* the listing is exhausted: return None
FlsExhausted ==
    /\ flsState = "running" /\ ~fdListFails /\ flsPos = Len(fds)
    /\ flsState' = "returned"
    /\ flsRet' = RetAbsent
    /\ UNCHANGED flsPos
    /\ FlsFrame

\* ---- specifications -----------------------------------------------------------
Init == LSInit /\ SpIdle /\ FlsIdle
Next == Connect \/ Read \/ ReadKey \/ GetItem \/ Close \/ IsConnected
Spec == Init /\ [][Next]_vars

\* with a generator the tables are those that store "dark" under theme and the
\* empty value under lang: zero to MaxRows rows, in either scan order
IterTables(n) ==
    {t \in Tables(n) :
        \A i \in 1..Len(t) : t[i][2] = IF t[i][1] = "theme" THEN Text("dark") ELSE Text("")}
InitIter == Init /\ table \in IterTables(MaxRows)
NextIter == Next \/ ReadIter \/ IterStart \/ IterNext
SpecIter == InitIter /\ [][NextIter]_vars

InitSearch == LSIdle /\ SpInit /\ FlsIdle
NextSearch == SearchYield \/ SearchSkip \/ SearchRaise \/ SearchEnd
SpecSearch == InitSearch /\ [][NextSearch]_vars

InitFind == LSIdle /\ SpIdle /\ FlsInit
NextFind == FlsListFail \/ FlsReadFail \/ FlsPass \/ FlsFound \/ FlsExhausted
SpecFind == InitFind /\ [][NextFind]_vars

\* ---- properties of search_processes (checked under SpecSearch) ------------------
\* the predicate accepts the executable of process i
Accepted(i) ==
    ApplyFilter(process_filter, realpath(procs[i].exe), basename(realpath(procs[i].exe)))

\* C1: with any_user false, no process is ever yielded whose owner is not the
\* current user, whatever the predicate says of its executable.
C1_OnlyOwnProcesses ==
    ~any_user =>
        \A n \in 1..Len(spYielded) :
            /\ ~procs[spYielded[n]].usernameDenied
            /\ procs[spYielded[n]].username = USER

\* C1 witness: the loop has finished, it passed a readable process of another
\* user that the predicate accepts, and it yielded some process.
C1_Witness ==
    /\ ~any_user
    /\ spState = "done"
    /\ spYielded # <<>>
    /\ \E i \in 1..spPos :
        /\ procs[i].username # USER
        /\ ~procs[i].usernameDenied
        /\ ~procs[i].exeDenied
        /\ Accepted(i)

\* process i passes the owner test and the predicate, and nothing is denied on it
Qualifies(i) ==
    /\ ~procs[i].usernameDenied
    /\ ~procs[i].exeDenied
    /\ (any_user \/ procs[i].username = USER)
    /\ Accepted(i)

\* C2: an AccessDenied on the owner or on the executable skips the process: the
\* enumeration never ends with an error, and once it has passed a process that
\* passes the owner test and the predicate, that process has been yielded.
C2_DeniedIsSkipped ==
    /\ spState # "raised"
    /\ \A i \in 1..Len(procs) :
        (Qualifies(i) /\ (spState = "done" \/ i <= spPos)) =>
            \E n \in 1..Len(spYielded) : spYielded[n] = i

\* ---- properties of the accessor (checked under Spec) -----------------------------
\* the name starts with '{proto}_{site}_' and ends with '.localstorage'
Fits(name) == StartsWith(name, proto \o US \o site \o US) /\ EndsWith(name, EXT)
SomeEntryFits == \E i \in 1..Len(storage) : Fits(storage[i])
NoEntryFits == ~SomeEntryFits

\* C3 as stated: of two connect() calls in succession the second returns what
\* the first returned, lists no directory and opens no handle.
C3_ConnectTwiceAsStated ==
    (prev.op = "connect" /\ last.op = "connect") =>
        (last.ret = prev.ret /\ ~last.listed /\ ~last.opened)

\* C3 amended: of two connect() calls in succession of which the first returned
\* a connection, the second returns the same connection, lists no directory and
\* opens no handle, and that connection is the open one the accessor holds;
\* after a first call that returned absent the second lists the directory again.
C3_ConnectTwice ==
    (prev.op = "connect" /\ last.op = "connect") =>
        IF prev.ret.kind = "handle"
        THEN /\ last.ret = prev.ret
             /\ ~last.listed
             /\ ~last.opened
             /\ connection = prev.ret.h
             /\ handles[connection].open
             /\ \A n \in 1..Len(handles) : handles[n].open => n = connection
        ELSE prev.ret = RetNone /\ last.listed

\* C3 witness: a second connect() right after one that returned a connection.
C3_Witness ==
    /\ prev.op = "connect"
    /\ prev.ret.kind = "handle"
    /\ last.op = "connect"
    /\ Len(storage) >= 2

\* C4: when no entry of the directory fits the pattern, connect() returns
\* absent without raising and opens no handle, the accessor stays disconnected,
\* and is_connected() called next returns false.
C4_NoMatchAbsent ==
    NoEntryFits =>
        /\ handles = <<>>
        /\ connection = 0
        /\ (last.op = "connect" => last.ret = RetNone /\ last.listed /\ ~last.opened)
        /\ (prev.op = "connect" /\ last.op = "is_connected" => last.ret = RetBool(FALSE))

\* C4 witness: is_connected() right after connect() on a directory that has
\* entries, none of which fits.
C4_Witness ==
    /\ NoEntryFits
    /\ Len(storage) >= 2
    /\ prev.op = "connect"
    /\ last.op = "is_connected"

\* what close() promises of the step that runs it
CloseStep ==
    last'.op = "close" =>
        /\ connection' = 0
        /\ ~Raised(last'.ret)
        /\ \A n \in 1..Len(handles') : ~handles'[n].open
        /\ (connection = 0 => handles' = handles)

\* is_connected() right after close() is false
IsConnectedAfterClose ==
    (last.op = "close" /\ last'.op = "is_connected") => last'.ret = RetBool(FALSE)

\* C5 as stated: after close() is_connected() is false; close() on a
\* disconnected accessor changes nothing and does not raise; a connect() issued
\* after close() lists the directory again and opens a new handle.
C5_CloseAsStated ==
    [][ /\ CloseStep
        /\ IsConnectedAfterClose
        /\ (last.op = "close" /\ last'.op = "connect") =>
              /\ last'.listed
              /\ last'.opened
              /\ connection' = Len(handles) + 1
              /\ handles'[connection'].open ]_vars

\* C5 amended: as stated, but the connect() after close() opens a new handle
\* only when an entry of the directory fits the pattern; when none does it
\* returns absent and opens nothing.  The new handle is never one closed before.
C5_Close ==
    [][ /\ CloseStep
        /\ IsConnectedAfterClose
        /\ (last.op = "close" /\ last'.op = "connect") =>
              /\ last'.listed
              /\ IF SomeEntryFits
                 THEN /\ last'.opened
                      /\ connection' = Len(handles) + 1
                      /\ last'.ret = RetHandle(connection')
                      /\ handles'[connection'].open
                      /\ SubSeq(handles', 1, Len(handles)) = handles
                 ELSE /\ ~last'.opened
                      /\ last'.ret = RetNone
                      /\ connection' = 0
                      /\ handles' = handles ]_vars

\* C5 witness: connect() right after a close() that closed handle 1 has opened
\* handle 2, and handle 1 stays closed.
C5_Witness ==
    /\ prev.op = "close"
    /\ last.op = "connect"
    /\ last.opened
    /\ connection = 2
    /\ ~handles[1].open
    /\ handles[2].open

\* the key is the key of some row of ItemTable
InTable(k) == \E i \in 1..Len(table) : table[i][1] = k
\* the value column of the row of key k
Stored(k) == table[CHOOSE i \in 1..Len(table) : table[i][1] = k][2]

C7_MissingKey ==
    SomeEntryFits =>
        /\ (last.op = "read_key" /\ ~InTable(last.key)) => last.ret = RetNone
        /\ (last.op = "getitem" /\ ~InTable(last.key)) => last.ret = Raise("IndexError")

\* C7 witness: accessor[key] right after read_key, on a table that has a row
\* but none of that key, has raised.
C7_Witness ==
    /\ SomeEntryFits
    /\ table # <<>>
    /\ prev.op = "read_key"
    /\ prev.ret = RetNone
    /\ last.op = "getitem"
    /\ ~InTable(last.key)
    /\ last.ret = Raise("IndexError")

\* C8: accessor[key] returns what read_key(key) returns for every key of the
\* table, whatever the value stored, and raises IndexError only for a key that
\* is not in the table.
C8_GetItemIsReadKey ==
    (SomeEntryFits /\ last.op = "getitem") =>
        IF InTable(last.key)
        THEN last.ret = RetValue(Stored(last.key))
        ELSE last.ret = Raise("IndexError")

\* C9: when no entry of the directory fits, read() raises instead of returning
\* a mapping, after one listing of the directory, and the accessor is still
\* disconnected, with no handle opened.
C9_ReadWithoutFile ==
    (NoEntryFits /\ last.op = "read") =>
        /\ Raised(last.ret)
        /\ last.listed
        /\ ~last.opened
        /\ connection = 0
        /\ handles = <<>>

\* C9 witness: read() has raised on a directory with entries, none fitting.
C9_Witness ==
    /\ NoEntryFits
    /\ Len(storage) >= 2
    /\ last.op = "read"
    /\ last.ret = Raise("AttributeError")

\* ---- properties of find_local_storage (checked under SpecFind) -------------------
\* entry i resolved to a pathname that has 'Local Storage' in it
IsHit(i) == ~fds[i].err /\ Contains(fds[i].path, LOCAL_STORAGE)
\* the first such entry in listing order (0 when there is none)
FirstHit ==
    IF \E i \in 1..Len(fds) : IsHit(i)
    THEN CHOOSE i \in 1..Len(fds) : IsHit(i) /\ \A j \in 1..(i - 1) : ~IsHit(j)
    ELSE 0

\* C10: find_local_storage returns None when no pathname of the process has
\* 'Local Storage' in it; otherwise it returns the dirname of the first such
\* pathname in listing order and has resolved no entry after it.  It ends
\* otherwise only when the listing or an entry before that pathname failed.
C10_FirstLocalStorage ==
    /\ flsState = "returned" =>
          IF FirstHit = 0
          THEN flsRet = RetAbsent /\ flsPos = Len(fds)
          ELSE flsRet = RetDir(dirname(fds[FirstHit].path)) /\ flsPos = FirstHit
    /\ flsState = "raised" =>
          \/ fdListFails
          \/ \E j \in 1..Len(fds) : fds[j].err /\ (FirstHit = 0 \/ j < FirstHit)
    /\ flsState = "running" => (FirstHit = 0 \/ flsPos < FirstHit)

\* C10 witness: of /a/log, /a/Local Storage/x and /b/Local Storage/l/y, in that
\* order, the call returned /a/Local Storage having resolved two entries.
C10_Witness ==
    /\ flsState = "returned"
    /\ Len(fds) = 3
    /\ fds[1] = [err |-> FALSE, path |-> <<"/", "a", "/", "l", "o", "g">>]
    /\ fds[2] = [err |-> FALSE, path |-> <<"/", "a", "/">> \o LOCAL_STORAGE \o <<"/", "x">>]
    /\ fds[3] = [err |-> FALSE,
                 path |-> <<"/", "b", "/">> \o LOCAL_STORAGE \o <<"/", "l", "/", "y">>]
    /\ flsRet = RetDir(<<"/", "a", "/">> \o LOCAL_STORAGE)
    /\ flsPos = 2

\* ---- properties of the accessor with a generator (checked under SpecIter) -------
\* C11: whatever connect, read, read_iter (and advancing its generator),
\* read_key, indexed access, is_connected and close have been called, the
\* connection is None or an open handle to a file that is exactly one entry of
\* the directory, whose name starts with '{proto}_{site}_' and ends with
\* '.localstorage'.
C11_ConnectionIsMatchingFile ==
    \/ connection = 0
    \/ /\ connection \in 1..Len(handles)
       /\ handles[connection].open
       /\ Cardinality({i \in 1..Len(storage) : storage[i] = handles[connection].file}) = 1
       /\ Fits(handles[connection].file)

\* C11 witness: a second handle is held, on the second entry of a directory
\* whose first entry does not fit, while a generator is suspended.
C11_Witness ==
    /\ connection = 2
    /\ iter.state = "running"
    /\ Len(storage) = 2
    /\ ~Fits(storage[1])
    /\ handles[2].file = storage[2]

\* C12: at any time at most one handle opened by the accessor is open, and it
\* is the one the accessor holds: every other handle has been closed.
C12_AtMostOneOpen ==
    \A n \in 1..Len(handles) : handles[n].open => n = connection

\* C12 witness: the accessor holds its second handle and the first is closed.
C12_Witness ==
    /\ Len(handles) = 2
    /\ connection = 2
    /\ ~handles[1].open
    /\ handles[2].open

\* ---- further properties of the accessor (checked under Spec) ---------------------
\* C13: is_connected() returns true exactly when a connection is held, and the
\* step that runs it lists no directory, opens and closes no handle and leaves
\* the connection as it was, connected or not.
C13_IsConnectedIsPure ==
    [][ last'.op = "is_connected" =>
            /\ last'.ret = RetBool(connection # 0)
            /\ connection' = connection
            /\ handles' = handles
            /\ ~last'.listed
            /\ ~last'.opened
            /\ UNCHANGED <<proto, site, storage, table, iter>> ]_vars

\* C13 witness: is_connected() returned true on the second handle, right after
\* the connect() that opened it.
C13_Witness ==
    /\ prev.op = "connect"
    /\ last.op = "is_connected"
    /\ last.ret = RetBool(TRUE)
    /\ connection = 2
    /\ ~handles[1].open

\* the first entry of the directory, in listing order, whose name fits
FirstFitting == storage[CHOOSE i \in 1..Len(storage) :
                           Fits(storage[i]) /\ \A j \in 1..(i - 1) : ~Fits(storage[j])]

\* C15: connect() on a disconnected accessor whose directory has a matching
\* entry opens exactly one handle, on the first matching entry in listing
\* order, stores it as the connection and returns it; an is_connected() that
\* follows returns true.
C15_ConnectOpensFirstMatch ==
    [][ /\ (last'.op = "connect" /\ connection = 0 /\ SomeEntryFits) =>
              /\ handles' = Append(handles, [file |-> FirstFitting, open |-> TRUE])
              /\ connection' = Len(handles')
              /\ last'.ret = RetHandle(connection')
              /\ last'.listed /\ last'.opened
        /\ (last.op = "connect" /\ last.before = 0 /\ SomeEntryFits
              /\ last'.op = "is_connected") => last'.ret = RetBool(TRUE) ]_vars

\* C15 witness: a first connect() was answered with a handle on the first of
\* two matching entries, and is_connected() then returned true.
C15_Witness ==
    /\ prev.op = "connect"
    /\ last.op = "is_connected"
    /\ last.ret = RetBool(TRUE)
    /\ Len(storage) = 2
    /\ Fits(storage[1]) /\ Fits(storage[2])
    /\ handles = <<[file |-> storage[1], open |-> TRUE]>>
    /\ connection = 1

\* ---- further properties of search_processes (checked under SpecSearch) ----------
\* a permission failure occurs on process i: its owner is read and denied, or
\* it passes the owner test and its executable is denied
FailsAt(i) ==
    \/ ~any_user /\ procs[i].usernameDenied
    \/ (any_user \/ procs[i].username = USER) /\ procs[i].exeDenied

\* process i is to be yielded
Wanted(i) == (any_user \/ procs[i].username = USER) /\ Accepted(i)

RECURSIVE WantedUpTo(_)
\* the wanted processes among the first n, in enumeration order
WantedUpTo(n) ==
    IF n = 0 THEN <<>>
    ELSE IF Wanted(n) THEN Append(WantedUpTo(n - 1), n) ELSE WantedUpTo(n - 1)

\* C14: as long as no permission failure has occurred, the processes yielded
\* are, in enumeration order and once each, exactly those passed so far for
\* which any_user is true or the owner is the current user, and the predicate
\* accepts the resolved executable and its basename; the enumeration does not
\* end with an error; a predicate that rejects everything yields nothing.
C14_YieldsExactlyTheWanted ==
    /\ (\A i \in 1..spPos : ~FailsAt(i)) =>
          /\ spYielded = WantedUpTo(spPos)
          /\ spState # "raised"
          /\ spState = "done" => spPos = Len(procs)
    /\ process_filter = "none" => spYielded = <<>>

\* C14 witness: of two processes without failure the enumeration, finished,
\* yielded the second only, which runs the link /b/ch and is accepted for its
\* resolved path /o/ch.
C14_Witness ==
    /\ spState = "done"
    /\ Len(procs) = 2
    /\ \A i \in 1..2 : ~FailsAt(i)
    /\ process_filter = "in_o"
    /\ procs[2].exe = EXE_LINK
    /\ spYielded = <<2>>

\* ---- further properties of the accessor with a generator (checked under SpecIter)
\* the operations that read the store and return what they read
ReadOps == {"read", "read_key", "getitem"}

\* C16: a read(), read_key() or indexed access that returns on a disconnected
\* accessor leaves a connection held on an open handle; while a connection is
\* held, every step other than close() keeps that connection and its handles,
\* and a read operation or a first advance of a generator lists no directory
\* and opens no handle: it reuses the connection.
C16_ConnectionKeptUntilClose ==
    [][ /\ (last'.op \in ReadOps /\ connection = 0 /\ ~Raised(last'.ret)) =>
              /\ connection' \in 1..Len(handles')
              /\ handles'[connection'].open
        /\ (connection # 0 /\ last'.op # "close") =>
              /\ connection' = connection
              /\ handles' = handles
              /\ ~last'.listed /\ ~last'.opened
        /\ (connection # 0 /\ iter.state = "created" /\ last'.op = "next") =>
              iter'.h \in {0, connection} ]_vars

\* C16 witness: read() connected the accessor, and the read_key() after it ran
\* on the same handle without listing the directory.
C16_Witness ==
    /\ prev.op = "read" /\ ~Raised(prev.ret)
    /\ last.op = "read_key" /\ ~Raised(last.ret)
    /\ last.before = 1 /\ connection = 1
    /\ ~last.listed /\ ~last.opened
    /\ handles = <<[file |-> FirstFitting, open |-> TRUE]>>

\* the mapping built from (key, value) pairs, a later pair replacing an earlier
\* one of the same key
DictOf(pairs) ==
    [k \in Keys |->
        IF \E i \in 1..Len(pairs) : pairs[i][1] = k
        THEN pairs[CHOOSE i \in 1..Len(pairs) :
                       pairs[i][1] = k /\ \A j \in (i + 1)..Len(pairs) : pairs[j][1] # k][2]
        ELSE Absent]

\* C17: a generator of read_iter() has yielded, at any moment, the first rows of
\* ItemTable in scan order, each once; when it is exhausted it has yielded all
\* of them, and the mapping built from what it yielded is what a read() of the
\* same table returns.
C17_ReadIterIsRead ==
    /\ iter.state \in {"running", "done"} =>
          /\ iter.pos = Len(iter.out)
          /\ iter.pos <= Len(table)
          /\ iter.out = SubSeq(table, 1, iter.pos)
    /\ iter.state = "running" => iter.pos >= 1
    /\ iter.state = "done" => iter.out = table
    /\ (iter.state = "done" /\ last.op = "read" /\ ~Raised(last.ret)) =>
          last.ret = RetDict(DictOf(iter.out))

\* C17 witness: a generator over a table of two rows is exhausted, and the
\* read() after it returned a mapping.
C17_Witness ==
    /\ iter.state = "done"
    /\ Len(table) = 2
    /\ iter.out = table
    /\ prev.op = "next" /\ prev.ret = RetStop
    /\ last.op = "read" /\ last.ret.kind = "dict"

\* C19: the call read_iter() leaves the connection and the handles as they
\* were, lists no directory and opens no handle; the first advance of the
\* generator on a disconnected accessor, in particular one after a close(),
\* lists the directory and, if an entry matches, opens a new handle that
\* becomes the connection the generator reads.
C19_ReadIterConnectsLate ==
    [][ /\ last'.op = "read_iter" =>
              /\ connection' = connection
              /\ handles' = handles
              /\ ~last'.listed /\ ~last'.opened
              /\ iter'.state = "created"
        /\ (iter.state = "created" /\ connection = 0 /\ last'.op = "next") =>
              /\ last'.listed
              /\ SomeEntryFits =>
                    /\ handles' = Append(handles, [file |-> FirstFitting, open |-> TRUE])
                    /\ connection' = Len(handles')
                    /\ last'.opened
                    /\ iter'.h = connection'
              /\ NoEntryFits =>
                    /\ last'.ret = Raise("AttributeError")
                    /\ connection' = 0 /\ handles' = handles
        /\ (iter.state = "created" /\ last.op = "close" /\ last'.op = "next") =>
              connection = 0 /\ last'.listed ]_vars

\* C19 witness: after a first connection, a close() came before the first
\* advance of a generator, and that advance opened a second handle.
C19_Witness ==
    /\ prev.op = "close"
    /\ last.op = "next" /\ last.ret.kind = "row"
    /\ last.before = 0 /\ last.listed /\ last.opened
    /\ iter.state = "running" /\ iter.h = 2
    /\ connection = 2
    /\ ~handles[1].open /\ handles[2].open

\* ---- further properties of find_local_storage (checked under SpecFind) ----------
\* C18: a failure of the listing, or of the resolution of an entry that is
\* reached, ends find_local_storage with the error: it never returns, absent or
\* a directory, after a failure, and it is in error only by such a failure; an
\* entry that fails after the first matching pathname is never resolved.
C18_FailurePropagates ==
    /\ flsState = "returned" =>
          /\ ~fdListFails
          /\ \A j \in 1..flsPos : ~fds[j].err
    /\ \A j \in 1..flsPos : fds[j].err => (flsState = "raised" /\ j = flsPos)
    /\ flsState = "raised" =>
          \/ fdListFails /\ flsPos = 0
          \/ /\ ~fdListFails
             /\ flsPos \in 1..Len(fds)
             /\ fds[flsPos].err
             /\ \A j \in 1..(flsPos - 1) : ~IsHit(j)
    /\ (FirstHit # 0 /\ ~fdListFails /\ \A j \in 1..(FirstHit - 1) : ~fds[j].err) =>
          flsState # "raised"

\* C18 witness: the second entry failed to resolve and the error left
\* find_local_storage, though the third pathname matches.
C18_Witness ==
    /\ flsState = "raised"
    /\ Len(fds) = 3
    /\ flsPos = 2
    /\ ~fds[1].err /\ fds[2].err
    /\ IsHit(3)

====
